---- MODULE Spec2Model ----
(***************************************************************************)
(* The streaming gateway of backend/server.js with its blockIDM            *)
(* middleware, the upstream origin it proxies, and the players that call   *)
(* it.  Strings are TLA+ strings handled character by character with Len,  *)
(* SubSeq and \o, so that the text operations of the code (toLowerCase,    *)
(* includes, split, trim, encodeURIComponent, decodeURIComponent, the      *)
(* query-string parser) are computed as the code computes them.            *)
(***************************************************************************)
EXTENDS Integers, Sequences, FiniteSets, TLC

(***************************************************************************)
(* JavaScript string primitives                                            *)
(***************************************************************************)

\* s[i] of JavaScript, 1-based
CharAt(s, i) == SubSeq(s, i, i)

\* String.prototype.startsWith
StartsWith(s, p) == Len(p) <= Len(s) /\ SubSeq(s, 1, Len(p)) = p

RECURSIVE IndexFrom(_, _, _)
\* the first position from i on at which sub occurs in s, 0 when there is none
IndexFrom(s, sub, i) ==
    IF i + Len(sub) - 1 > Len(s) THEN 0
    ELSE IF SubSeq(s, i, i + Len(sub) - 1) = sub THEN i
    ELSE IndexFrom(s, sub, i + 1)

\* String.prototype.indexOf, 1-based; 0 when sub does not occur (-1 in JavaScript)
IndexOf(s, sub) == IndexFrom(s, sub, 1)

\* String.prototype.lastIndexOf, 1-based; 0 when sub does not occur
LastIndexOf(s, sub) ==
    LET hits == {i \in 1..(Len(s) - Len(sub) + 1) : SubSeq(s, i, i + Len(sub) - 1) = sub}
    IN  IF hits = {} THEN 0 ELSE CHOOSE i \in hits : \A j \in hits : i >= j

\* String.prototype.includes
Includes(s, sub) == IndexOf(s, sub) # 0

UpperChars == "ABCDEFGHIJKLMNOPQRSTUVWXYZ"
LowerChars == "abcdefghijklmnopqrstuvwxyz"

\* the lower-case letter of every upper-case ASCII letter
LowerOf == [c \in {CharAt(UpperChars, i) : i \in 1..26} |-> CharAt(LowerChars, IndexOf(UpperChars, c))]

\* the upper-case letter of every lower-case ASCII letter
UpperOf == [c \in {CharAt(LowerChars, i) : i \in 1..26} |-> CharAt(UpperChars, IndexOf(LowerChars, c))]

RECURSIVE LowerFrom(_, _)
\* the characters of s from position i on, in lower case
LowerFrom(s, i) ==
    IF i > Len(s) THEN ""
    ELSE LET c == CharAt(s, i)
         IN  (IF c \in DOMAIN LowerOf THEN LowerOf[c] ELSE c) \o LowerFrom(s, i + 1)

\* String.prototype.toLowerCase on the ASCII letters
ToLowerCase(s) == LowerFrom(s, 1)

\* the white space and line terminators String.prototype.trim strips (ASCII ones)
IsSpace(c) == c \in {" ", "\t", "\n", "\r", "\f"}

RECURSIVE FirstInk(_, _)
\* the first position from i on of a character of s that is not white space,
\* Len(s) + 1 when there is none
FirstInk(s, i) ==
    IF i <= Len(s) /\ IsSpace(CharAt(s, i)) THEN FirstInk(s, i + 1) ELSE i

RECURSIVE LastInk(_, _)
\* the last position up to i of a character of s that is not white space, 0
\* when there is none
LastInk(s, i) ==
    IF i >= 1 /\ IsSpace(CharAt(s, i)) THEN LastInk(s, i - 1) ELSE i

\* String.prototype.trim
Trim(s) == SubSeq(s, FirstInk(s, 1), LastInk(s, Len(s)))

RECURSIVE SplitFrom(_, _, _)
\* the pieces of s from position i on between the occurrences of sep
SplitFrom(s, sep, i) ==
    LET k == IndexFrom(s, sep, i)
    IN  IF k = 0 THEN <<SubSeq(s, i, Len(s))>>
        ELSE <<SubSeq(s, i, k - 1)>> \o SplitFrom(s, sep, k + 1)

\* String.prototype.split with a one-character separator: a sequence of strings
Split(s, sep) == SplitFrom(s, sep, 1)

RECURSIVE Join(_, _)
\* Array.prototype.join
Join(parts, sep) ==
    IF Len(parts) = 0 THEN ""
    ELSE IF Len(parts) = 1 THEN parts[1]
    ELSE parts[1] \o sep \o Join(Tail(parts), sep)

(***************************************************************************)
(* Percent-encoding (ECMAScript encodeURIComponent / decodeURIComponent)   *)
(* and the query-string parser behind req.query                            *)
(***************************************************************************)

\* the printable ASCII characters in code order: 32 (space) to 95 (_), and
\* 97 (a) to 126 (~); a TLA+ string cannot hold the grave accent (96)
AsciiLow == " !\"#$%&'()*+,-./0123456789:;<=>?@ABCDEFGHIJKLMNOPQRSTUVWXYZ[\\]^_"
AsciiHigh == "abcdefghijklmnopqrstuvwxyz{|}~"

HexDigits == "0123456789ABCDEF"

\* the ASCII characters of the model
AsciiChars ==
    {"\t", "\n", "\f", "\r"} \cup {CharAt(AsciiLow, i) : i \in 1..Len(AsciiLow)}
        \cup {CharAt(AsciiHigh, i) : i \in 1..Len(AsciiHigh)}

\* the character code of every ASCII character
CodeOf ==
    [c \in AsciiChars |->
        CASE c = "\t" -> 9
          [] c = "\n" -> 10
          [] c = "\f" -> 12
          [] c = "\r" -> 13
          [] IndexOf(AsciiHigh, c) # 0 -> 96 + IndexOf(AsciiHigh, c)
          [] OTHER    -> 31 + IndexOf(AsciiLow, c)]

\* String.prototype.charCodeAt
CharCode(c) == CodeOf[c]

\* String.fromCharCode for the 7-bit codes; the grave accent and the control
\* characters other than tab, line feed, form feed and carriage return are kept
\* as one opaque character
FromCharCode(n) ==
    CASE n = 9  -> "\t"
      [] n = 10 -> "\n"
      [] n = 12 -> "\f"
      [] n = 13 -> "\r"
      [] n >= 32 /\ n <= 95  -> CharAt(AsciiLow, n - 31)
      [] n >= 97 /\ n <= 126 -> CharAt(AsciiHigh, n - 96)
      [] OTHER -> "<other>"

\* uriUnreserved of encodeURIComponent: A-Z a-z 0-9 - _ . ! ~ * ' ( )
UnreservedChars ==
    LET u == "ABCDEFGHIJKLMNOPQRSTUVWXYZabcdefghijklmnopqrstuvwxyz0123456789-_.!~*'()"
    IN  {CharAt(u, i) : i \in 1..Len(u)}

IsUnreserved(c) == c \in UnreservedChars

\* the escape of every ASCII character outside the unreserved set: %XX with
\* upper-case hexadecimal digits
EscapeOf ==
    [c \in AsciiChars |->
        IF IsUnreserved(c) THEN c
        ELSE "%" \o CharAt(HexDigits, (CodeOf[c] \div 16) + 1)
                 \o CharAt(HexDigits, (CodeOf[c] % 16) + 1)]

RECURSIVE EncodeFrom(_, _)
\* the characters of s from position i on, escaped
EncodeFrom(s, i) ==
    IF i > Len(s) THEN "" ELSE EscapeOf[CharAt(s, i)] \o EncodeFrom(s, i + 1)

\* encodeURIComponent on ASCII text
EncodeURIComponent(s) == EncodeFrom(s, 1)

\* the value of every hexadecimal digit, in either case
HexValOf ==
    [c \in {CharAt(HexDigits, i) : i \in 1..16} \cup {"a", "b", "c", "d", "e", "f"} |->
        IndexOf(HexDigits, IF c \in DOMAIN UpperOf THEN UpperOf[c] ELSE c) - 1]

\* the value of a hexadecimal digit, -1 for any other character
HexVal(c) == IF c \in DOMAIN HexValOf THEN HexValOf[c] ELSE -1

RECURSIVE DecodeFrom(_, _)
\* s from position i on with its escapes decoded: [ok, val]
DecodeFrom(s, i) ==
    LET k == IndexFrom(s, "%", i)
    IN  IF k = 0 THEN [ok |-> TRUE, val |-> SubSeq(s, i, Len(s))]
        ELSE IF k + 2 > Len(s) \/ HexVal(CharAt(s, k + 1)) < 0 \/ HexVal(CharAt(s, k + 2)) < 0
        THEN [ok |-> FALSE, val |-> ""]
        ELSE LET n == 16 * HexVal(CharAt(s, k + 1)) + HexVal(CharAt(s, k + 2))
                 r == DecodeFrom(s, k + 3)
             IN  IF n >= 128 \/ ~r.ok THEN [ok |-> FALSE, val |-> ""]
                 ELSE [ok |-> TRUE, val |-> SubSeq(s, i, k - 1) \o FromCharCode(n) \o r.val]

\* decodeURIComponent: [ok, val]; ok = FALSE is the URIError it throws on a
\* '%' that is not followed by two hexadecimal digits, or on a byte that is not
\* the start of well-formed UTF-8.  Every byte from 80 to C1 is malformed as a
\* start byte; multi-byte sequences (lead bytes C2 to F4) are not decoded here
\* and are reported malformed as well.
DecodeURIComponent(s) == DecodeFrom(s, 1)

RECURSIVE PlusToSpaceFrom(_, _)
\* s from position i on with every '+' replaced by a space
PlusToSpaceFrom(s, i) ==
    LET k == IndexFrom(s, "+", i)
    IN  IF k = 0 THEN SubSeq(s, i, Len(s))
        ELSE SubSeq(s, i, k - 1) \o " " \o PlusToSpaceFrom(s, k + 1)

\* str.replace(/\+/g, ' ') of the query-string decoder
PlusToSpace(s) == PlusToSpaceFrom(s, 1)

\* the decoder of the query-string parser: '+' is a space, then
\* decodeURIComponent, and the text as it stands when that throws
QsDecode(s) ==
    LET t == PlusToSpace(s)
        d == DecodeURIComponent(t)
    IN  IF d.ok THEN d.val ELSE t

\* the value of an absent header or query parameter (undefined in JavaScript)
Undefined == "<undefined>"

\* JavaScript truthiness of a string-or-undefined value
Truthy(v) == v # Undefined /\ v # ""

RECURSIVE QueryValues(_, _)
\* the decoded values, in order, that the parts of a query string give to key
QueryValues(parts, key) ==
    IF Len(parts) = 0 THEN <<>>
    ELSE LET p  == parts[1]
             eq == IndexOf(p, "=")
             k  == QsDecode(IF eq = 0 THEN p ELSE SubSeq(p, 1, eq - 1))
             v  == IF eq = 0 THEN "" ELSE QsDecode(SubSeq(p, eq + 1, Len(p)))
         IN  (IF p # "" /\ k = key THEN <<v>> ELSE <<>>) \o QueryValues(Tail(parts), key)

\* req.query[key] as the handler uses it: undefined when the key is absent, the
\* decoded value when it occurs once; a key that occurs several times yields an
\* array, which is truthy and reads as its values joined by ',' wherever the
\* handler uses it as a string
QueryParam(query, key) ==
    LET vs == QueryValues(Split(query, "&"), key)
    IN  IF Len(vs) = 0 THEN Undefined ELSE Join(vs, ",")

(***************************************************************************)
(* The blockIDM middleware (backend/middleware/blockIDM.js)                *)
(***************************************************************************)

\* const blockedAgents = [...]
blockedAgents ==
    << "IDM", "Internet Download Manager", "JDownloader", "curl", "Wget", "Aria2",
       "Go-http-client", "Python-urllib", "FDM", "EagleGet", "Free Download Manager",
       "DownloadAccelerator", "PostmanRuntime" >>

\* agent.toLowerCase() for every agent of blockedAgents
blockedAgentsLower == [i \in 1..Len(blockedAgents) |-> ToLowerCase(blockedAgents[i])]

\* the mutant of isBlockedAgent that compares without lower-casing
IsBlockedAgentCaseSensitive(userAgent) ==
    \E i \in 1..Len(blockedAgents) : Includes(userAgent, blockedAgents[i])

\* blockedAgents.some(agent => userAgent.toLowerCase().includes(agent.toLowerCase()))
isBlockedAgent(userAgent) ==
    LET lower == ToLowerCase(userAgent)
    IN  \E i \in 1..Len(blockedAgents) : Includes(lower, blockedAgentsLower[i])

\* the mutant of validDestinations that leaves 'empty' out
ValidDestinationsWithoutEmpty == {"video", "audio", "object"}

\* const validDestinations = ['video', 'audio', 'empty', 'object']
validDestinations == {"video", "audio", "empty", "object"}

\* a response that has not been started
NoResponse ==
    [ status |-> 0, error |-> Undefined, message |-> Undefined, contentType |-> Undefined,
      contentRange |-> Undefined, acceptRanges |-> Undefined, contentLength |-> Undefined,
      text |-> Undefined, bytesOf |-> Undefined, bytesRange |-> Undefined ]

\* res.status(code).json({error, message}) and res.status(code).end()
JsonResponse(code, error, message) ==
    [NoResponse EXCEPT !.status = code, !.error = error, !.message = message]

\* the mutant of blockIDM that has no method check
BlockIDMWithoutMethodCheck(r) ==
    LET userAgent == IF Truthy(r.userAgent) THEN r.userAgent ELSE ""
        referer   == IF Truthy(r.referer) THEN r.referer ELSE ""
    IN  IF isBlockedAgent(userAgent)
        THEN JsonResponse(403, "Access Denied",
                 "Download Managers are not allowed. Please use the browser player.")
        ELSE IF ~Truthy(referer)
        THEN JsonResponse(403, "Access Denied", "Invalid Referer. Direct access is not allowed.")
        ELSE IF Truthy(r.secFetchDest) /\ r.secFetchDest \notin validDestinations
        THEN JsonResponse(403, "Invalid Request Mode", Undefined)
        ELSE NoResponse

\* the mutant of blockIDM that tests the method before the headers
BlockIDMMethodFirst(r) ==
    LET userAgent == IF Truthy(r.userAgent) THEN r.userAgent ELSE ""
        referer   == IF Truthy(r.referer) THEN r.referer ELSE ""
    IN  IF r.method = "HEAD"
        THEN JsonResponse(405, Undefined, Undefined)
        ELSE IF isBlockedAgent(userAgent)
        THEN JsonResponse(403, "Access Denied",
                 "Download Managers are not allowed. Please use the browser player.")
        ELSE IF ~Truthy(referer)
        THEN JsonResponse(403, "Access Denied", "Invalid Referer. Direct access is not allowed.")
        ELSE IF Truthy(r.secFetchDest) /\ r.secFetchDest \notin validDestinations
        THEN JsonResponse(403, "Invalid Request Mode", Undefined)
        ELSE NoResponse

\* the mutant of blockIDM that tolerates a missing Referer on a request whose
\* Accept header names text/html
BlockIDMWithAcceptException(r) ==
    LET userAgent == IF Truthy(r.userAgent) THEN r.userAgent ELSE ""
        referer   == IF Truthy(r.referer) THEN r.referer ELSE ""
        accept    == IF Truthy(r.accept) THEN r.accept ELSE ""
    IN  IF isBlockedAgent(userAgent)
        THEN JsonResponse(403, "Access Denied",
                 "Download Managers are not allowed. Please use the browser player.")
        ELSE IF ~Truthy(referer) /\ ~Includes(accept, "text/html")
        THEN JsonResponse(403, "Access Denied", "Invalid Referer. Direct access is not allowed.")
        ELSE IF r.method = "HEAD"
        THEN JsonResponse(405, Undefined, Undefined)
        ELSE IF Truthy(r.secFetchDest) /\ r.secFetchDest \notin validDestinations
        THEN JsonResponse(403, "Invalid Request Mode", Undefined)
        ELSE NoResponse

\* the body of blockIDM: the denial it sends, or NoResponse when it calls next()
blockIDM(r) ==
    LET userAgent == IF Truthy(r.userAgent) THEN r.userAgent ELSE ""
        referer   == IF Truthy(r.referer) THEN r.referer ELSE ""
    IN  IF isBlockedAgent(userAgent)
        THEN JsonResponse(403, "Access Denied",
                 "Download Managers are not allowed. Please use the browser player.")
        ELSE IF ~Truthy(referer)
        THEN JsonResponse(403, "Access Denied", "Invalid Referer. Direct access is not allowed.")
        ELSE IF r.method = "HEAD"
        THEN JsonResponse(405, Undefined, Undefined)
        ELSE IF Truthy(r.secFetchDest) /\ r.secFetchDest \notin validDestinations
        THEN JsonResponse(403, "Invalid Request Mode", Undefined)
        ELSE NoResponse

(***************************************************************************)
(* Routing of backend/server.js                                            *)
(***************************************************************************)

\* app.use(mount, ...): a mount path matches itself and every path below it
MountMatches(path, mount) == path = mount \/ StartsWith(path, mount \o "/")

\* app.get(route, ...): a route matches its path, with or without a final '/'
RouteMatches(path, route) == path = route \/ path = route \o "/"

StreamPath == "/api/stream"

\* the mutant of BlockIDMApplies: the middleware is mounted on the token
\* endpoint and not on the stream path
BlockIDMOnTokenEndpointOnly(path) == MountMatches(path, "/api/generate-token")

\* app.use('/api/stream', blockIDM)
BlockIDMApplies(path) == MountMatches(path, StreamPath)

\* app.get('/api/stream', ...) serves GET, and HEAD as Express routes it
StreamRouteMatches(r) == r.method \in {"GET", "HEAD"} /\ RouteMatches(r.path, StreamPath)

(***************************************************************************)
(* Token generation of POST /api/generate-token                            *)
(***************************************************************************)

Base64Chars == "ABCDEFGHIJKLMNOPQRSTUVWXYZabcdefghijklmnopqrstuvwxyz0123456789+/"

RECURSIVE Base64(_)
\* Buffer.from(s).toString('base64') on ASCII text
Base64(s) ==
    IF s = "" THEN ""
    ELSE LET n  == Len(s)
             b1 == CharCode(CharAt(s, 1))
             b2 == IF n >= 2 THEN CharCode(CharAt(s, 2)) ELSE 0
             b3 == IF n >= 3 THEN CharCode(CharAt(s, 3)) ELSE 0
             ch(v) == CharAt(Base64Chars, v + 1)
         IN  ch(b1 \div 4) \o ch((b1 % 4) * 16 + (b2 \div 16))
             \o (IF n >= 2 THEN ch((b2 % 16) * 4 + (b3 \div 64)) ELSE "=")
             \o (IF n >= 3 THEN ch(b3 % 64) ELSE "=")
             \o Base64(SubSeq(s, 4, n))

RECURSIVE DecimalDigits(_, _)
\* the decimal digits of n, padded with zeros to width w
DecimalDigits(n, w) ==
    IF w = 0 THEN ""
    ELSE DecimalDigits(n \div 10, w - 1) \o CharAt("0123456789", (n % 10) + 1)

\* Date.now().toString() at t seconds of model time: milliseconds since the
\* epoch, thirteen digits, the model's time 0 being 1700000000000
DateNowString(t) == "1700000" \o DecimalDigits(t * 1000, 6)

\* const token = Buffer.from(Date.now().toString()).toString('base64')
GeneratedToken(t) == Base64(DateNowString(t))

\* PORT
PORT == "3000"

\* streamUrl of the token response
TokenStreamUrl(token) ==
    "http://localhost:" \o PORT \o "/api/stream/video123.m3u8?token=" \o token

(***************************************************************************)
(* The manifest rewriter of GET /api/stream                                *)
(***************************************************************************)

\* line.trim() && !line.trim().startsWith('#')
IsUriLine(line) == Trim(line) # "" /\ ~StartsWith(Trim(line), "#")

\* upstreamUrl.substring(0, upstreamUrl.lastIndexOf('/') + 1)
baseUrl(upstreamUrl) == SubSeq(upstreamUrl, 1, LastIndexOf(upstreamUrl, "/"))

\* line.startsWith('http') ? line : baseUrl + line
absoluteSegmentUrl(line, upstreamUrl) ==
    IF StartsWith(line, "http") THEN line ELSE baseUrl(upstreamUrl) \o line

\* the callback of originalManifest.split('\n').map(...)
RewriteLine(line, upstreamUrl, token, protocol, host) ==
    IF IsUriLine(line)
    THEN protocol \o "://" \o host \o "/api/stream?token=" \o token
         \o "&url=" \o EncodeURIComponent(absoluteSegmentUrl(line, upstreamUrl))
    ELSE line

\* originalManifest.split('\n').map(...).join('\n')
modifiedManifest(originalManifest, upstreamUrl, token, protocol, host) ==
    LET lines == Split(originalManifest, "\n")
    IN  Join([i \in 1..Len(lines) |-> RewriteLine(lines[i], upstreamUrl, token, protocol, host)],
             "\n")

(***************************************************************************)
(* The clients' view of a URL                                              *)
(***************************************************************************)

\* the URL without its fragment, as a client sends it
StripFragment(u) ==
    LET k == IndexOf(u, "#") IN IF k = 0 THEN u ELSE SubSeq(u, 1, k - 1)

\* the query string of a URL: what follows the first '?'
UrlQuery(u) ==
    LET v == StripFragment(u)
        k == IndexOf(v, "?")
    IN  IF k = 0 THEN "" ELSE SubSeq(v, k + 1, Len(v))

\* scheme, host and path of a URL: what precedes the first '?'
UrlBeforeQuery(u) ==
    LET v == StripFragment(u)
        k == IndexOf(v, "?")
    IN  IF k = 0 THEN v ELSE SubSeq(v, 1, k - 1)

\* the query string without the parts that give a value to key
RemoveParam(query, key) ==
    LET parts == Split(query, "&")
        keyOf(p) == QsDecode(IF IndexOf(p, "=") = 0 THEN p ELSE SubSeq(p, 1, IndexOf(p, "=") - 1))
    IN  Join(SelectSeq(parts, LAMBDA p : keyOf(p) # key), "&")

(***************************************************************************)
(* Inputs: the requests clients send and what the upstream origin answers  *)
(***************************************************************************)

\* the longest chain of manifest lines a client follows
MaxDepth == 2

\* the most tokens the token endpoint hands out in one run
MaxTokens == 1

\* the most stream requests one client address sends in one run
MaxBurst == 21

\* the seconds of model time that pass in one step of the clock, and the last
\* instant of a run
TickSeconds == 6
MaxClock == 12

\* the seconds that pass while a stream URL lies unused, the last instant of
\* such a run, and the most requests that replay a stream URL in one run
WaitSeconds == 150
MaxWait == 450
MaxReplays == 2

\* the most decisions of earlier requests that a run keeps for comparison
MaxNoted == 2

\* the most runs of the negotiation effect of the player (a mount and the
\* changes of its url prop) in one run
MaxGen == 3

\* the seconds of model time that pass in one step of the player's clock
IdleTick == 10

\* the Host header under which clients reach the gateway, and req.protocol
GatewayHost == "localhost:" \o PORT
GatewayProtocol == "http"

\* the origin of the front end (the cors origin of the first server.js)
FrontEndOrigin == "http://localhost:5173/"

\* headers['User-Agent'] of the standard file proxy
ProxyUserAgent ==
    "Mozilla/5.0 (Windows NT 10.0; Win64; x64) AppleWebKit/537.36 (KHTML, like Gecko) Chrome/91.0.4472.124 Safari/537.36"

\* the User-Agent of a browser
BrowserUserAgent == "Mozilla/5.0 Firefox/120.0"

UserAgents ==
    { Undefined, BrowserUserAgent, "curl/8.4.0", "WGET/1.21", "x-iDm-x", "python-requests/2.31" }

Referers == { Undefined, FrontEndOrigin, "http://evil.example/" }

SecFetchDests == { Undefined, "video", "empty", "document" }

Methods == { "GET", "HEAD", "POST" }

Ranges == { Undefined, "bytes=100-199" }

\* Accept headers: none, that of a top-level navigation of a browser, that of
\* fetch and XHR
NavigationAccept == "text/html,application/xhtml+xml,application/xml;q=0.9,*/*;q=0.8"
Accepts == { Undefined, NavigationAccept, "*/*" }

\* upstream URLs that clients ask the gateway to proxy
UpstreamUrls ==
    { "http://o/v/master.m3u8", "http://o/v/seg0.ts", "http://o/v/clip.mp4?list=a.m3u8",
      "http://o/v/a%20b.ts" }

\* the token part of a query string: absent, empty, forged, or issued
TokenParts(issuedTokens) ==
    { "", "token=", "token=abc" } \cup { "token=" \o t : t \in issuedTokens }

\* forged tokens with characters that are special in a URL or in a playlist
SpecialTokenParts == { "token=a%26b", "token=a%0Ab" }

\* the url part of a query string: absent, or a percent-encoded upstream URL
UrlParts == { "" } \cup { "url=" \o EncodeURIComponent(u) : u \in UpstreamUrls }

QueryOf(tokenPart, urlPart) ==
    IF tokenPart = "" THEN urlPart
    ELSE IF urlPart = "" THEN tokenPart
    ELSE tokenPart \o "&" \o urlPart

\* a request with no cookie, sent by a client on its own account; via, line,
\* srcLine, srcBase and kept record where a request comes from: the manifest
\* line it dereferences and whether it kept the credential of that line
DirectRequest(method, path, query, userAgent, referer, secFetchDest, range) ==
    [ method |-> method, path |-> path, query |-> query, host |-> GatewayHost,
      userAgent |-> userAgent, referer |-> referer, secFetchDest |-> secFetchDest,
      range |-> range, accept |-> Undefined, cookie |-> Undefined, via |-> "direct",
      line |-> 0, srcLine |-> Undefined, srcBase |-> Undefined, kept |-> TRUE ]

NoRequest == DirectRequest(Undefined, Undefined, "", Undefined, Undefined, Undefined, Undefined)

\* playlists the upstream origin serves
Manifests ==
    { "#EXTM3U\n#EXT-X-KEY:METHOD=AES-128,URI=\"http://o/v/k.bin\"\n#EXTINF:10,\nseg0.ts\n#EXTINF:10,\nseg1.ts\n#EXT-X-ENDLIST\n",
      "#EXTM3U\n#EXT-X-STREAM-INF:BANDWIDTH=1\nlow/index.m3u8\n\n  # note\nhttp://o/w/hi.m3u8",
      "#EXTM3U\r\nhttp://o/v/seg0.ts\r\nhttp://o/v/a%20b.ts\n#EXT-X-ENDLIST",
      "#EXTM3U\nhttp://o/v/100%.m3u8\n/top.ts" }

\* what the origin answers to a fetch: a network error, or a status with headers
NetworkError == [ kind |-> "error", status |-> 0, contentType |-> Undefined,
                  contentRange |-> Undefined, acceptRanges |-> Undefined,
                  contentLength |-> Undefined, text |-> Undefined, part |-> Undefined ]

HttpReply(status, contentType, contentRange, acceptRanges, contentLength, text, part) ==
    [ kind |-> "http", status |-> status, contentType |-> contentType,
      contentRange |-> contentRange, acceptRanges |-> acceptRanges,
      contentLength |-> contentLength, text |-> text, part |-> part ]

\* the origin's answers to the fetch of a playlist
ManifestReplies ==
    { NetworkError,
      HttpReply(404, "text/html", Undefined, Undefined, Undefined, Undefined, Undefined) }
    \cup { HttpReply(200, "application/vnd.apple.mpegurl", Undefined, Undefined, Undefined, m, "all")
             : m \in Manifests }

\* the origin's answers to the fetch of a file with the given Range header: an
\* origin that honours ranges answers 206 to a range request, one that does not
\* answers 200 with the whole file
MediaReplies(range) ==
    { NetworkError,
      HttpReply(404, "text/html", Undefined, Undefined, Undefined, Undefined, Undefined),
      HttpReply(200, "video/mp2t", Undefined, "bytes", "1000", Undefined, "all"),
      HttpReply(200, Undefined, Undefined, Undefined, Undefined, Undefined, "all"),
      HttpReply(204, Undefined, Undefined, Undefined, Undefined, Undefined, "none") }
    \cup (IF range = "bytes=100-199"
          THEN { HttpReply(206, "video/mp2t", "bytes 100-199/1000", "bytes", "100", Undefined,
                           "100-199"),
                 HttpReply(416, Undefined, "bytes */1000", Undefined, Undefined, Undefined,
                           Undefined) }
          ELSE {})

\* no answer of the origin
NoReply == [NetworkError EXCEPT !.kind = "none"]

\* no upstream fetch issued
NoFetch == [ url |-> Undefined, range |-> Undefined, userAgent |-> Undefined,
             responseType |-> Undefined ]

\* no manifest held by the client
NoPage == [ text |-> Undefined, original |-> Undefined, upstreamUrl |-> Undefined,
            token |-> Undefined, by |-> NoRequest ]

(***************************************************************************)
(* State                                                                   *)
(***************************************************************************)

VARIABLES
    req,        \* the request the gateway is serving
    pc,         \* where that request stands: idle, received, routed,
                \* awaitManifest, awaitMedia, responded, hung, pending,
                \* unpiped, released
    res,        \* the response sent for it (status 0: none yet)
    passed,     \* blockIDM has called next() for it
    up,         \* the upstream fetch issued for it
    fetches,    \* how many upstream fetches were issued for it
    reply,      \* what the origin answered to the fetch
    page,       \* the rewritten manifest the client holds, and where it came from
    depth,      \* how many manifest lines the client has followed in a row
    issued,     \* the tokens the token endpoint has handed out
    clock,      \* seconds of model time
    arrivals,   \* the instants at which the stream requests of a burst arrived
    player,     \* the SecurePlayer component
    decisions   \* the requests answered so far, each with the decision it got

vars == << req, pc, res, passed, up, fetches, reply, page, depth, issued, clock, arrivals, player, decisions >>

\* the inactivity guard before the player is mounted: isIdle, timer (the
\* timeout of idleTimerRef is pending), elapsed (seconds since it was set), seen
\* (the isIdle that the registered listeners captured), due (the effect of
\* [isIdle] is due to run), paused (the guard has paused the media) and by
\* (what last ran: mount, activity, timer or effect)
NoIdleGuard == [ isIdle |-> FALSE, timer |-> FALSE, elapsed |-> 0, seen |-> FALSE,
                 due |-> FALSE, paused |-> FALSE, by |-> "none" ]

\* the inactivity guard once the effect has run on mount: the listeners are
\* registered and resetIdleTimer() has set the timeout
MountedIdleGuard == [NoIdleGuard EXCEPT !.timer = TRUE, !.by = "mount"]

\* the SecurePlayer before it is mounted: its state as useState initialises it,
\* gen (the run of the negotiation effect whose closure is the current one),
\* pending (the negotiations in flight, each with the gen and the url of the
\* closure that awaits it), hls (what the initialisation effect has set up),
\* initDue (the initialisation effect is due to run), mse (Hls.isSupported())
\* and ignored (how many responses reached a closure already cleaned up)
NoPlayer == [ phase |-> "unmounted", url |-> Undefined, proxiedUrl |-> Undefined,
              cookie |-> Undefined, loading |-> TRUE, error |-> Undefined,
              gen |-> 0, pending |-> {}, hls |-> "none", initDue |-> FALSE, mse |-> TRUE,
              ignored |-> 0, idle |-> NoIdleGuard ]

Init ==
    /\ req = NoRequest
    /\ pc = "idle"
    /\ res = NoResponse
    /\ passed = FALSE
    /\ up = NoFetch
    /\ fetches = 0
    /\ reply = NoReply
    /\ page = NoPage
    /\ depth = 0
    /\ issued = {}
    /\ clock = 0
    /\ arrivals = << >>
    /\ player = NoPlayer
    /\ decisions = {}

(***************************************************************************)
(* The gateway: one request from arrival to response                       *)
(***************************************************************************)

\* a request arrives at the gateway
Receive(r) ==
    /\ req' = r
    /\ pc' = "received"
    /\ res' = NoResponse
    /\ passed' = FALSE
    /\ up' = NoFetch
    /\ fetches' = 0
    /\ reply' = NoReply

\* the mutant of BlockIDMStep that remembers denials: once a request of the
\* client has been denied, the middleware denies every request
BlockIDMStepWithBan ==
    /\ pc = "received"
    /\ IF \E d \in decisions : ~d[2].allowed
       THEN /\ res' = JsonResponse(403, "Access Denied", Undefined)
            /\ pc' = "responded"
            /\ passed' = passed
       ELSE LET denial == blockIDM(req)
            IN  IF denial.status # 0
                THEN /\ res' = denial
                     /\ pc' = "responded"
                     /\ passed' = passed
                ELSE /\ res' = res
                     /\ pc' = "routed"
                     /\ passed' = TRUE
    /\ UNCHANGED << req, up, fetches, reply, page, depth, issued, clock, arrivals, player,
                    decisions >>

\* app.use('/api/stream', blockIDM): the middleware denies, or calls next()
BlockIDMStep ==
    /\ pc = "received"
    /\ IF BlockIDMApplies(req.path)
       THEN LET denial == blockIDM(req)
            IN  IF denial.status # 0
                THEN /\ res' = denial
                     /\ pc' = "responded"
                     /\ passed' = passed
                ELSE /\ res' = res
                     /\ pc' = "routed"
                     /\ passed' = TRUE
       ELSE /\ res' = res
            /\ pc' = "routed"
            /\ passed' = passed
    /\ UNCHANGED << req, up, fetches, reply, page, depth, issued, clock, arrivals, player, decisions >>

\* the answer of Express when no route matches
NotFound == [NoResponse EXCEPT !.status = 404]

\* res.status(500).send('Stream Proxy Failed')
ProxyFailed == [NoResponse EXCEPT !.status = 500, !.text = "Stream Proxy Failed"]

\* !(!token || !url)
TokenAndUrlPresent(token, url) == Truthy(token) /\ Truthy(url)

\* upstreamUrl.includes('.m3u8')
IsPlaylistUrl(upstreamUrl) == Includes(upstreamUrl, ".m3u8")

\* the mutant of ForwardedRange that forwards no Range
NoForwardedRange(r) == Undefined

\* if (req.headers.range) headers['Range'] = req.headers.range
ForwardedRange(r) == IF Truthy(r.range) THEN r.range ELSE Undefined

\* app.get('/api/stream', ...) up to its first await
StreamHandlerStep ==
    /\ pc = "routed"
    /\ \E token \in { QueryParam(req.query, "token") },
          url \in { QueryParam(req.query, "url") } :
       \E upstreamUrl \in { DecodeURIComponent(url) } :
           IF ~StreamRouteMatches(req)
           THEN /\ res' = NotFound
                /\ pc' = "responded"
                /\ UNCHANGED << up, fetches >>
           ELSE IF ~TokenAndUrlPresent(token, url)
           THEN /\ res' = JsonResponse(403, "Missing token or url", Undefined)
                /\ pc' = "responded"
                /\ UNCHANGED << up, fetches >>
           ELSE IF ~upstreamUrl.ok
           \* decodeURIComponent throws outside the try block: the async handler
           \* rejects, and Express either leaves the request unanswered (version
           \* 4) or answers 500 through its error handler (version 5)
           THEN /\ \/ pc' = "hung" /\ res' = res
                   \/ pc' = "responded" /\ res' = [NoResponse EXCEPT !.status = 500]
                /\ UNCHANGED << up, fetches >>
           ELSE IF IsPlaylistUrl(upstreamUrl.val)
           THEN /\ up' = [ url |-> upstreamUrl.val, range |-> Undefined,
                           userAgent |-> Undefined, responseType |-> "text" ]
                /\ fetches' = fetches + 1
                /\ pc' = "awaitManifest"
                /\ res' = res
           ELSE /\ up' = [ url |-> upstreamUrl.val, range |-> ForwardedRange(req),
                           userAgent |-> ProxyUserAgent, responseType |-> "stream" ]
                /\ fetches' = fetches + 1
                /\ pc' = "awaitMedia"
                /\ res' = res
    /\ UNCHANGED << req, passed, reply, page, depth, issued, clock, arrivals, player, decisions >>

\* the mutant of UpstreamAccepted that accepts every status
UpstreamAcceptsAnyStatus(answer) == answer.kind = "http"

\* axios resolves for a status validateStatus accepts (2xx, also by default)
UpstreamAccepted(answer) ==
    answer.kind = "http" /\ answer.status >= 200 /\ answer.status < 300

\* the playlist branch after its await: rewrite and send, or the catch block
ManifestReplyStep ==
    /\ pc = "awaitManifest"
    /\ \E answer \in ManifestReplies :
       /\ reply' = answer
       /\ IF UpstreamAccepted(answer)
          THEN LET token == QueryParam(req.query, "token")
                   text  == modifiedManifest(answer.text, up.url, token, GatewayProtocol,
                                             req.host)
               IN  /\ res' = [NoResponse EXCEPT !.status = 200,
                                  !.contentType = "application/vnd.apple.mpegurl",
                                  !.text = text]
                   /\ page' = [ text |-> text, original |-> answer.text,
                                upstreamUrl |-> up.url, token |-> token, by |-> req ]
          ELSE /\ res' = ProxyFailed
               /\ page' = page
    /\ pc' = "responded"
    /\ UNCHANGED << req, passed, up, fetches, depth, issued, clock, arrivals, player, decisions >>

\* headerKeys.forEach(key => { if (response.headers[key]) res.set(key, ...) })
ForwardedHeader(value) == IF Truthy(value) THEN value ELSE Undefined

\* the file branch after its await: mirror status and headers and pipe the
\* body, or the catch block
MediaReplyStep ==
    /\ pc = "awaitMedia"
    /\ \E answer \in MediaReplies(up.range) :
       /\ reply' = answer
       /\ IF UpstreamAccepted(answer)
          THEN res' = [NoResponse EXCEPT !.status = answer.status,
                           !.contentRange = ForwardedHeader(answer.contentRange),
                           !.acceptRanges = ForwardedHeader(answer.acceptRanges),
                           !.contentLength = ForwardedHeader(answer.contentLength),
                           !.contentType = ForwardedHeader(answer.contentType),
                           !.bytesOf = up.url, !.bytesRange = answer.part]
          ELSE res' = ProxyFailed
    /\ pc' = "responded"
    /\ UNCHANGED << req, passed, up, fetches, page, depth, issued, clock, arrivals, player, decisions >>

(***************************************************************************)
(* Clients                                                                 *)
(***************************************************************************)

Paths == { StreamPath, "/api/stream/video123.m3u8" }

\* any client sends any request of the input sets to the stream path
ReceiveDirect ==
    /\ pc = "idle"
    /\ player.phase = "unmounted"
    /\ \E method \in Methods, path \in Paths, userAgent \in UserAgents, referer \in Referers,
          secFetchDest \in SecFetchDests, range \in Ranges,
          tokenPart \in TokenParts(issued), urlPart \in UrlParts :
         Receive(DirectRequest(method, path, QueryOf(tokenPart, urlPart), userAgent, referer,
                               secFetchDest, range))
    /\ page' = NoPage
    /\ depth' = 0
    /\ UNCHANGED << issued, clock, arrivals, player, decisions >>

\* a browser-like client sends a GET to the stream endpoint with any token and
\* any upstream URL of the input sets
ReceiveFromBrowser ==
    /\ pc = "idle"
    /\ player.phase = "unmounted"
    /\ \E range \in Ranges, tokenPart \in TokenParts(issued) \cup SpecialTokenParts,
          urlPart \in UrlParts :
         Receive(DirectRequest("GET", StreamPath, QueryOf(tokenPart, urlPart),
                               BrowserUserAgent, FrontEndOrigin, "empty", range))
    /\ page' = NoPage
    /\ depth' = 0
    /\ UNCHANGED << issued, clock, arrivals, player, decisions >>

\* the path of a URL on the gateway
GatewayPath(u) ==
    LET prefix == GatewayProtocol \o "://" \o GatewayHost
        b == UrlBeforeQuery(u)
    IN  SubSeq(b, Len(prefix) + 1, Len(b))

\* the client that holds a rewritten manifest requests one of its URI lines
\* with the headers of the request that fetched the manifest, with the
\* credential of the line or with the credential taken off
FollowLine ==
    /\ pc \in {"idle", "responded", "hung"}
    /\ page.text # Undefined
    /\ depth < MaxDepth
    /\ \E outLines \in { Split(page.text, "\n") }, inLines \in { Split(page.original, "\n") } :
       \E j \in 1..Len(outLines) :
       \E uri \in { Trim(outLines[j]) } :
         /\ uri # ""
         /\ ~StartsWith(uri, "#")
         /\ StartsWith(uri, GatewayProtocol \o "://" \o GatewayHost \o "/")
         /\ \E path \in { GatewayPath(uri) }, query \in { UrlQuery(uri) } :
            \E range \in Ranges, keep \in BOOLEAN :
              Receive([ method |-> "GET", path |-> path,
                        query |-> IF keep THEN query ELSE RemoveParam(query, "token"),
                        host |-> GatewayHost, userAgent |-> page.by.userAgent,
                        referer |-> page.by.referer,
                        secFetchDest |-> page.by.secFetchDest, range |-> range,
                        accept |-> page.by.accept,
                        cookie |-> page.by.cookie, via |-> "follow", line |-> j,
                        srcLine |-> IF Len(inLines) = Len(outLines) THEN inLines[j]
                                    ELSE Undefined,
                        srcBase |-> page.upstreamUrl, kept |-> keep ])
    /\ depth' = depth + 1
    /\ UNCHANGED << page, issued, clock, arrivals, player, decisions >>

\* the exchange is over: the client turns to its next request
Finish ==
    /\ pc \in {"responded", "hung"}
    /\ req' = NoRequest
    /\ pc' = "idle"
    /\ res' = NoResponse
    /\ passed' = FALSE
    /\ up' = NoFetch
    /\ fetches' = 0
    /\ reply' = NoReply
    /\ page' = NoPage
    /\ depth' = 0
    /\ UNCHANGED << issued, clock, arrivals, player, decisions >>

\* app.post('/api/generate-token', ...): the token is the encoded clock
GenerateToken ==
    /\ pc = "idle"
    /\ Cardinality(issued) < MaxTokens
    /\ issued' = issued \cup { GeneratedToken(clock) }
    /\ UNCHANGED << req, pc, res, passed, up, fetches, reply, page, depth, clock, arrivals,
                    player, decisions >>

\* the client requests the streamUrl that the token endpoint returned
\* (signedUrl of requestSecureStream)
ReceiveStreamUrl ==
    /\ pc = "idle"
    /\ player.phase = "unmounted"
    /\ \E t \in issued :
         Receive([DirectRequest("GET", GatewayPath(TokenStreamUrl(t)),
                                UrlQuery(TokenStreamUrl(t)), BrowserUserAgent, FrontEndOrigin,
                                "empty", Undefined) EXCEPT !.via = "streamUrl"])
    /\ page' = NoPage
    /\ depth' = 0
    /\ UNCHANGED << issued, clock, arrivals, player, decisions >>

\* upstream URLs of the requests of a burst
BurstUrls == { "http://o/v/master.m3u8", "http://o/v/seg0.ts" }

\* one client address sends a browser request with an issued token at the
\* current instant; arrivals records the instant
ReceiveTimed ==
    /\ pc = "idle"
    /\ player.phase = "unmounted"
    /\ Len(arrivals) < MaxBurst
    /\ \E t \in issued, u \in BurstUrls :
         Receive(DirectRequest("GET", StreamPath,
                               QueryOf("token=" \o t, "url=" \o EncodeURIComponent(u)),
                               BrowserUserAgent, FrontEndOrigin, "empty", Undefined))
    /\ arrivals' = Append(arrivals, clock)
    /\ page' = NoPage
    /\ depth' = 0
    /\ UNCHANGED << issued, clock, player, decisions >>

\* time passes between two exchanges
Tick ==
    /\ pc = "idle"
    /\ clock + TickSeconds <= MaxClock
    /\ clock' = clock + TickSeconds
    /\ UNCHANGED << req, pc, res, passed, up, fetches, reply, page, depth, issued, arrivals,
                    player, decisions >>

\* a client requests a stream URL with a token issued earlier, at the current
\* instant; arrivals records the instant
ReceiveReplay ==
    /\ pc = "idle"
    /\ player.phase = "unmounted"
    /\ Len(arrivals) < MaxReplays
    /\ \E t \in issued, u \in BurstUrls :
         Receive(DirectRequest("GET", StreamPath,
                               QueryOf("token=" \o t, "url=" \o EncodeURIComponent(u)),
                               BrowserUserAgent, FrontEndOrigin, "empty", Undefined))
    /\ arrivals' = Append(arrivals, clock)
    /\ page' = NoPage
    /\ depth' = 0
    /\ UNCHANGED << issued, clock, player, decisions >>

\* minutes pass between two exchanges
Wait ==
    /\ pc = "idle"
    /\ clock + WaitSeconds <= MaxWait
    /\ clock' = clock + WaitSeconds
    /\ UNCHANGED << req, pc, res, passed, up, fetches, reply, page, depth, issued, arrivals,
                    player, decisions >>

\* the origin accepts the connection of the fetch and never answers: the axios
\* call has no timeout option, so its promise stays pending and neither the
\* code after the await nor the catch block ever runs
UpstreamSilent ==
    /\ pc \in {"awaitManifest", "awaitMedia"}
    /\ reply' = [NoReply EXCEPT !.kind = "silent"]
    /\ pc' = "pending"
    /\ UNCHANGED << req, res, passed, up, fetches, page, depth, issued, clock, arrivals,
                    player, decisions >>

\* response.data.pipe(res) is under way: status and headers of a file are sent
\* and its body flows from the connection to the origin to the client
Piping == pc = "responded" /\ Truthy(res.bytesOf) /\ UpstreamAccepted(reply)

\* the client disconnects while the body is piped: pipe() unpipes the upstream
\* stream when res closes and leaves it paused; nothing destroys the stream or
\* cancels the axios request, so the connection to the origin stays open
ClientDisconnects ==
    /\ Piping
    /\ pc' = "unpiped"
    /\ UNCHANGED << req, res, passed, up, fetches, reply, page, depth, issued, clock,
                    arrivals, player, decisions >>

\* the origin, of its own accord, closes the connection that the gateway has
\* stopped reading
OriginGivesUp ==
    /\ pc = "unpiped"
    /\ pc' = "released"
    /\ UNCHANGED << req, res, passed, up, fetches, reply, page, depth, issued, clock,
                    arrivals, player, decisions >>

\* what a request is made of: its method, its headers and its query
RequestKey(r) ==
    [ method |-> r.method, path |-> r.path, query |-> r.query, userAgent |-> r.userAgent,
      referer |-> r.referer, secFetchDest |-> r.secFetchDest, range |-> r.range,
      accept |-> r.accept, cookie |-> r.cookie ]

\* the gateway has decided on the request being served: it has issued the
\* upstream fetch, or it has answered without one
Decided == fetches > 0 \/ pc = "responded"

\* the decision: allowed to the upstream fetch, or denied with a status
Decision ==
    [ allowed |-> fetches > 0, status |-> IF fetches > 0 THEN 0 ELSE res.status ]

\* the requests one client repeats: browser requests for a playlist and for a
\* file with a forged or an issued token, and requests that are denied for
\* their credential, their method, their agent or their Referer
RepeatRequests(issuedTokens) ==
    { DirectRequest("GET", StreamPath, QueryOf(tokenPart, "url=" \o EncodeURIComponent(u)),
                    BrowserUserAgent, FrontEndOrigin, "empty", Undefined)
        : tokenPart \in {"token=abc"} \cup { "token=" \o t : t \in issuedTokens },
          u \in BurstUrls }
    \cup { DirectRequest(method, StreamPath,
                         QueryOf(tokenPart, "url=" \o EncodeURIComponent("http://o/v/seg0.ts")),
                         userAgent, referer, "empty", Undefined)
             : method \in {"GET", "HEAD"}, tokenPart \in {"", "token=abc"},
               userAgent \in {BrowserUserAgent, "curl/8.4.0"},
               referer \in {Undefined, FrontEndOrigin} }

\* one client sends requests of a small set, the same ones again and again,
\* with and without a token, allowed ones and denied ones
ReceiveRepeat ==
    /\ pc = "idle"
    /\ player.phase = "unmounted"
    /\ \E r \in RepeatRequests(issued) : Receive(r)
    /\ page' = NoPage
    /\ depth' = 0
    /\ UNCHANGED << issued, clock, arrivals, player, decisions >>

\* the decision on the request being served is kept for comparison with the
\* decisions on later requests
Note ==
    /\ Decided
    /\ Cardinality(decisions) < MaxNoted
    /\ << RequestKey(req), Decision >> \notin decisions
    /\ decisions' = decisions \cup { << RequestKey(req), Decision >> }
    /\ UNCHANGED << req, pc, res, passed, up, fetches, reply, page, depth, issued, clock,
                    arrivals, player >>

\* a client sends a GET or a HEAD to the stream endpoint with any Accept header
\* of the input sets, as a navigation of a browser, a fetch or a tool does
ReceiveNavigation ==
    /\ pc = "idle"
    /\ player.phase = "unmounted"
    /\ \E method \in {"GET", "HEAD"}, userAgent \in {BrowserUserAgent, "curl/8.4.0"},
          referer \in Referers, secFetchDest \in SecFetchDests, accept \in Accepts,
          tokenPart \in {"", "token=abc"}, urlPart \in UrlParts :
         Receive([DirectRequest(method, StreamPath, QueryOf(tokenPart, urlPart), userAgent,
                                referer, secFetchDest, Undefined)
                    EXCEPT !.accept = accept])
    /\ page' = NoPage
    /\ depth' = 0
    /\ UNCHANGED << issued, clock, arrivals, player, decisions >>

\* the steps of the gateway
Serve ==
    \/ BlockIDMStep
    \/ StreamHandlerStep
    \/ ManifestReplyStep
    \/ MediaReplyStep

\* any request of the input sets, one exchange at a time
Next ==
    \/ ReceiveDirect
    \/ Finish
    \/ GenerateToken
    \/ Serve

Spec == Init /\ [][Next]_vars

\* playback by a browser-like client: manifests are fetched and their lines
\* followed
NextPlayback ==
    \/ ReceiveFromBrowser
    \/ ReceiveStreamUrl
    \/ FollowLine
    \/ Finish
    \/ GenerateToken
    \/ Serve

SpecPlayback == Init /\ [][NextPlayback]_vars

\* bursts of requests of one client address as time passes
NextRate ==
    \/ ReceiveTimed
    \/ Tick
    \/ Finish
    \/ GenerateToken
    \/ Serve

SpecRate == Init /\ [][NextRate]_vars

\* stream URLs used minutes after their token was issued
NextReplay ==
    \/ ReceiveReplay
    \/ Wait
    \/ Finish
    \/ GenerateToken
    \/ Serve

SpecReplay == Init /\ [][NextReplay]_vars

\* requests with and without the Accept header of a navigation
NextNavigate ==
    \/ ReceiveNavigation
    \/ Finish
    \/ GenerateToken
    \/ Serve

SpecNavigate == Init /\ [][NextNavigate]_vars

(***************************************************************************)
(* The SecurePlayer component                                              *)
(***************************************************************************)

\* the url props of the player: an HLS playlist and a file
PlayerUrls == { "http://o/v/master.m3u8", "http://o/v/seg0.ts" }

\* const isHls = url.includes('.m3u8')
IsHls(url) == Includes(url, ".m3u8")

\* BACKEND_URL
BACKEND_URL == GatewayProtocol \o "://" \o GatewayHost

\* the secureUrl of the negotiation effect
SecureUrl(url) == BACKEND_URL \o "/api/stream?url=" \o EncodeURIComponent(url)

\* the media element is in the document: the render shows it when
\* !loading && proxiedUrl, so videoRef.current is set exactly then
VideoRendered(p) == ~p.loading /\ Truthy(p.proxiedUrl)

\* the mutant of IsMounted: a closure whose flag is never cleared
IsMountedNeverCleared(n) == TRUE

\* the isMounted flag of the closure that awaits negotiation n: the cleanup of
\* the effect clears it when the url changes and when the player unmounts
IsMounted(n) == player.phase = "mounted" /\ n.gen = player.gen

\* the player mounts with a url: the negotiation effect sets loading, clears
\* error and proxiedUrl and posts the negotiation
Mount ==
    /\ pc = "idle"
    /\ player.phase = "unmounted"
    /\ player.gen < MaxGen
    /\ \E url \in PlayerUrls, mse \in BOOLEAN :
         player' = [NoPlayer EXCEPT !.phase = "mounted", !.url = url, !.mse = mse,
                        !.gen = player.gen + 1, !.ignored = player.ignored,
                        !.idle = MountedIdleGuard,
                        !.pending = player.pending
                                      \cup { [ gen |-> player.gen + 1, url |-> url ] }]
    /\ UNCHANGED << req, pc, res, passed, up, fetches, reply, page, depth, issued, clock,
                    arrivals, decisions >>

\* the url prop changes: both effects clean up (isMounted = false, hls.destroy())
\* and run again in the same commit. The negotiation effect sets loading, clears
\* error and proxiedUrl and posts a negotiation; the initialisation effect
\* still sees the proxiedUrl of the last render and, for a url that is no
\* playlist, calls setLoading(false) after the setLoading(true) of the first
\* effect; with proxiedUrl cleared the next render's run of it returns at once
ChangeUrl ==
    /\ player.phase = "mounted"
    /\ player.gen < MaxGen
    /\ \E url \in PlayerUrls \ { player.url } :
         player' = [player EXCEPT !.url = url, !.gen = player.gen + 1,
                        !.loading = ~(Truthy(player.proxiedUrl) /\ ~IsHls(url)),
                        !.error = Undefined, !.proxiedUrl = Undefined, !.hls = "none",
                        !.initDue = FALSE,
                        !.pending = player.pending
                                      \cup { [ gen |-> player.gen + 1, url |-> url ] }]
    /\ UNCHANGED << req, pc, res, passed, up, fetches, reply, page, depth, issued, clock,
                    arrivals, decisions >>

\* the player unmounts: the cleanups run
Unmount ==
    /\ player.phase = "mounted"
    /\ player' = [player EXCEPT !.phase = "unmounted", !.hls = "none", !.initDue = FALSE,
                                !.idle.timer = FALSE, !.idle.due = FALSE]
    /\ UNCHANGED << req, pc, res, passed, up, fetches, reply, page, depth, issued, clock,
                    arrivals, decisions >>

\* the response to a negotiation arrives, a success or a failure, and the
\* closure that awaits it runs on
NegotiationResponds ==
    /\ \E n \in player.pending, success \in BOOLEAN :
         player' =
           IF ~IsMounted(n)
           THEN [player EXCEPT !.pending = player.pending \ {n},
                               !.ignored = player.ignored + 1]
           ELSE IF success
           THEN [player EXCEPT !.pending = player.pending \ {n},
                               !.proxiedUrl = SecureUrl(n.url), !.initDue = TRUE]
           ELSE [player EXCEPT !.pending = player.pending \ {n},
                               !.error = "Security negotiation failed. Please enable cookies and disable download managers.",
                               !.loading = FALSE]
    /\ UNCHANGED << req, pc, res, passed, up, fetches, reply, page, depth, issued, clock,
                    arrivals, decisions >>

\* the initialisation effect runs for a proxiedUrl that was set: for a
\* playlist it creates an Hls instance, which loads the source, attaches the
\* media element and registers the listeners that call setLoading(false) and
\* setError only if videoRef.current is set; without Hls support it sets src
\* and a listener on videoRef.current, if set; for a file it calls
\* setLoading(false)
RunPlayerInit ==
    /\ player.phase = "mounted"
    /\ player.initDue
    /\ player' =
         IF IsHls(player.url)
         THEN IF player.mse
              THEN [player EXCEPT !.initDue = FALSE,
                        !.hls = IF VideoRendered(player) THEN "loaded" ELSE "idle"]
              ELSE [player EXCEPT !.initDue = FALSE,
                        !.hls = IF VideoRendered(player) THEN "native" ELSE "none"]
         ELSE [player EXCEPT !.initDue = FALSE, !.loading = FALSE]
    /\ UNCHANGED << req, pc, res, passed, up, fetches, reply, page, depth, issued, clock,
                    arrivals, decisions >>

\* IDLE_TIMEOUT, in seconds
IDLE_TIMEOUT == 20

\* time passes without user activity, no further than the instant at which a
\* pending timeout fires
PlayerTick ==
    /\ player.phase = "mounted"
    /\ player.idle.timer
    /\ player.idle.elapsed < IDLE_TIMEOUT
    /\ player' = [player EXCEPT !.idle.elapsed =
                      IF player.idle.elapsed + IdleTick < IDLE_TIMEOUT
                      THEN player.idle.elapsed + IdleTick ELSE IDLE_TIMEOUT]
    /\ UNCHANGED << req, pc, res, passed, up, fetches, reply, page, depth, issued, clock,
                    arrivals, decisions >>

\* resetIdleTimer as a listener runs it, with the isIdle its closure captured:
\* setIsIdle(false) if that isIdle is true, then the timeout is set anew
Activity ==
    /\ player.phase = "mounted"
    /\ player' = [player EXCEPT !.idle.isIdle = IF player.idle.seen THEN FALSE ELSE @,
                                !.idle.due = IF player.idle.seen /\ player.idle.isIdle
                                             THEN TRUE ELSE @,
                                !.idle.timer = TRUE, !.idle.elapsed = 0,
                                !.idle.by = "activity"]
    /\ UNCHANGED << req, pc, res, passed, up, fetches, reply, page, depth, issued, clock,
                    arrivals, decisions >>

\* the timeout fires IDLE_TIMEOUT after it was set: setIsIdle(true), and the
\* media element, if there is one, is paused
TimerFires ==
    /\ player.phase = "mounted"
    /\ player.idle.timer
    /\ player.idle.elapsed >= IDLE_TIMEOUT
    /\ player' = [player EXCEPT !.idle.isIdle = TRUE,
                                !.idle.due = IF player.idle.isIdle THEN @ ELSE TRUE,
                                !.idle.timer = FALSE,
                                !.idle.paused = IF VideoRendered(player) THEN TRUE ELSE @,
                                !.idle.by = "timer"]
    /\ UNCHANGED << req, pc, res, passed, up, fetches, reply, page, depth, issued, clock,
                    arrivals, decisions >>

\* the effect of [isIdle] runs again after isIdle has changed: its cleanup
\* removes the listeners and clears the timeout, its body registers the
\* listeners of the new render and calls resetIdleTimer(), which calls
\* setIsIdle(false) if isIdle is true and sets the timeout
RunIdleEffect ==
    /\ player.phase = "mounted"
    /\ player.idle.due
    /\ player' = [player EXCEPT !.idle.seen = player.idle.isIdle,
                                !.idle.isIdle = FALSE,
                                !.idle.due = player.idle.isIdle,
                                !.idle.timer = TRUE, !.idle.elapsed = 0,
                                !.idle.by = "effect"]
    /\ UNCHANGED << req, pc, res, passed, up, fetches, reply, page, depth, issued, clock,
                    arrivals, decisions >>

\* the life of a player: React runs an effect that is due
NextPlayer ==
    \/ Mount
    \/ ChangeUrl
    \/ Unmount
    \/ NegotiationResponds
    \/ RunPlayerInit

SpecPlayer == Init /\ [][NextPlayer]_vars /\ WF_vars(RunPlayerInit)

\* a player in front of a user who is active at times and idle at times
NextIdle ==
    \/ NextPlayer
    \/ PlayerTick
    \/ Activity
    \/ TimerFires
    \/ RunIdleEffect

SpecIdle == Init /\ [][NextIdle]_vars

\* one client repeats requests; the decisions on earlier ones are kept
NextRepeat ==
    \/ ReceiveRepeat
    \/ Note
    \/ Finish
    \/ GenerateToken
    \/ Serve

SpecRepeat == Init /\ [][NextRepeat]_vars

\* the positions at which a step of the gateway can run: Serve is enabled at
\* each of them and at no other
Runnable == pc \in {"received", "routed", "awaitManifest", "awaitMedia"}

\* a step of Serve as pc shows it: the steps of Serve, and no other step, lead
\* from a runnable position to one of these
ServeStep ==
    /\ Runnable
    /\ pc' \in {"routed", "awaitManifest", "awaitMedia", "responded", "hung"}
    /\ pc' # pc

\* browser requests to an origin that may never answer; the event loop of the
\* gateway runs every step of a handler that can run
NextWaiting ==
    \/ ReceiveFromBrowser
    \/ UpstreamSilent
    \/ Finish
    \/ GenerateToken
    \/ Serve

SpecWaiting == Init /\ [][NextWaiting]_vars /\ WF_pc(ServeStep)

\* browser requests of clients that may disconnect while a body is piped; the
\* event loop of the gateway runs every step of a handler that can run, and
\* the origin closes a connection when it chooses to
NextCancel ==
    \/ ReceiveFromBrowser
    \/ ClientDisconnects
    \/ OriginGivesUp
    \/ Finish
    \/ GenerateToken
    \/ Serve

SpecCancel == Init /\ [][NextCancel]_vars /\ WF_pc(ServeStep)

(***************************************************************************)
(* What the handler reads from the request being served                    *)
(***************************************************************************)

\* const { token, url } = req.query
TokenOf(r) == QueryParam(r.query, "token")
UrlOf(r) == QueryParam(r.query, "url")

\* req.get('User-Agent') || ''
UserAgentOf(r) == IF Truthy(r.userAgent) THEN r.userAgent ELSE ""

(***************************************************************************)
(* Properties: credential, denylist and method checks                      *)
(***************************************************************************)

\* the request is for the stream path, where the middleware is mounted
OnStreamPath(r) == r.path # Undefined /\ MountMatches(r.path, StreamPath)

\* the User-Agent contains a signature of the denylist, whatever the case of
\* its letters
ContainsSignature(userAgent) ==
    \E lower \in { ToLowerCase(userAgent) } :
        \E i \in DOMAIN blockedAgentsLower : Includes(lower, blockedAgentsLower[i])

\* C1: every GET to the stream endpoint whose token is absent, empty or not
\* one the token endpoint issued is answered 403, whatever its headers and
\* its other query parameters are
C1_NoCredentialForbidden ==
    (/\ pc = "responded"
     /\ req.method = "GET"
     /\ RouteMatches(req.path, StreamPath)
     /\ TokenOf(req) \notin issued)
    => res.status = 403

\* C2: a request to the stream path whose User-Agent contains a denylisted
\* signature, in any letter case, never gets past the middleware and is
\* answered 403 with the denial of download managers, whatever its
\* credential, Referer, method and Sec-Fetch-Dest are
C2_DenylistedAgentForbidden ==
    (/\ OnStreamPath(req)
     /\ ContainsSignature(UserAgentOf(req))
     /\ pc # "received")
    => /\ pc = "responded"
       /\ fetches = 0
       /\ res.status = 403
       /\ res.error = "Access Denied"
       /\ res.message = "Download Managers are not allowed. Please use the browser player."

\* C2 (witness): a GET with an issued token, a Referer and a User-Agent that
\* matches the denylist only when case is ignored has been answered 403
C2_Witness ==
    /\ pc = "responded"
    /\ req.method = "GET"
    /\ req.userAgent = "WGET/1.21"
    /\ req.referer = FrontEndOrigin
    /\ TokenOf(req) \in issued
    /\ Truthy(UrlOf(req))
    /\ res.status = 403

\* C3 (as stated): every HEAD request to the stream path is answered 405
C3_EveryHeadIs405 ==
    (pc = "responded" /\ req.method = "HEAD" /\ OnStreamPath(req)) => res.status = 405

\* C3 (amended): a HEAD request to the stream path whose User-Agent is not
\* denylisted and whose Referer is present is answered 405, whatever its
\* credential is; no HEAD request reaches the stream handler or the upstream
\* origin, and none is answered 200 or 206
C3_HeadRejected ==
    (req.method = "HEAD" /\ OnStreamPath(req))
    => /\ fetches = 0
       /\ pc \notin {"routed", "awaitManifest", "awaitMedia", "hung"}
       /\ res.status \notin {200, 206}
       /\ (/\ pc = "responded"
           /\ ~ContainsSignature(UserAgentOf(req))
           /\ Truthy(req.referer))
          => res.status = 405

\* C3 (witness): a HEAD request with an issued token, a browser User-Agent, a
\* Referer and a valid Sec-Fetch-Dest has been answered 405
C3_Witness ==
    /\ pc = "responded"
    /\ req.method = "HEAD"
    /\ req.path = StreamPath
    /\ req.userAgent = BrowserUserAgent
    /\ req.referer = FrontEndOrigin
    /\ req.secFetchDest = "empty"
    /\ TokenOf(req) \in issued
    /\ Truthy(UrlOf(req))
    /\ res.status = 405

(***************************************************************************)
(* Properties: rate of requests                                            *)
(***************************************************************************)

\* how many recorded arrivals fall in the ten seconds that end with the
\* arrival of the request being served, that arrival included
ArrivalsInWindow ==
    LET now == arrivals[Len(arrivals)]
    IN  Cardinality({ i \in DOMAIN arrivals : arrivals[i] > now - 10 })

\* C4: a request that is the 21st or later of its ten-second window is
\* answered 429, and a request that is at most the 19th of its window is not
C4_RateGuard ==
    (pc = "responded" /\ Len(arrivals) > 0)
    => /\ ArrivalsInWindow >= 21 => res.status = 429
       /\ ArrivalsInWindow <= 19 => res.status # 429

(***************************************************************************)
(* Properties: the rewriter and the requests it leads to                   *)
(***************************************************************************)

\* the request dereferences a line of a rewritten manifest, with the
\* credential the line carries
FollowsLine == req.via = "follow" /\ req.kept /\ req.srcLine # Undefined

\* the stream handler has run for the request being served
Handled == pc \in {"awaitManifest", "awaitMedia", "responded", "hung"}

\* C5: a request for the rewritten form of a manifest line that is an absolute
\* URL u makes the stream endpoint fetch exactly u
C5_RewriteRoundTrip ==
    (/\ FollowsLine
     /\ StartsWith(req.srcLine, "http")
     /\ Trim(req.srcLine) = req.srcLine
     /\ Handled)
    => /\ pc # "hung"
       /\ fetches = 1
       /\ up.url = req.srcLine

\* C6: rewriting keeps the number of lines of a manifest, and every line that
\* starts with '#' is found unchanged at its position
C6_DirectivesUntouched ==
    page.text # Undefined
    => \E inLines \in { Split(page.original, "\n") }, outLines \in { Split(page.text, "\n") } :
         /\ Len(outLines) = Len(inLines)
         /\ \A i \in DOMAIN inLines :
              StartsWith(inLines[i], "#") => (i \in DOMAIN outLines /\ outLines[i] = inLines[i])

\* the upstream URL the handler derives from the url parameter
DecodedUrlOf(r) == DecodeURIComponent(UrlOf(r))

\* the middleware has admitted the request and the handler takes it for a
\* file: token and url are present and the upstream URL has no '.m3u8'
AdmittedFileRequest ==
    /\ passed
    /\ StreamRouteMatches(req)
    /\ Truthy(TokenOf(req))
    /\ Truthy(UrlOf(req))
    /\ DecodedUrlOf(req).ok
    /\ ~Includes(DecodedUrlOf(req).val, ".m3u8")

ResolvedLine == absoluteSegmentUrl(req.srcLine, req.srcBase)

\* C8: with a negotiated token, the request for the negotiated stream URL
\* returns a rewritten manifest; a request for a line of a rewritten manifest
\* with the credential and the headers of the manifest request is answered
\* 200 or 206 from the resolved upstream URL when the origin serves it, and
\* the same request without the credential is answered 403
C8_PlaybackSequence ==
    /\ (pc = "responded" /\ req.via = "streamUrl")
       => /\ res.status = 200
          /\ res.contentType = "application/vnd.apple.mpegurl"
    /\ (/\ FollowsLine
        /\ TokenOf(req) \in issued
        /\ Handled
        /\ reply.kind \in {"none", "http"}
        /\ reply.kind = "http" => UpstreamAccepted(reply))
       => /\ pc # "hung"
          /\ fetches = 1
          /\ up.url = ResolvedLine
          /\ pc = "responded" => res.status \in {200, 206}
    /\ (/\ pc = "responded"
        /\ req.via = "follow"
        /\ ~req.kept
        /\ page.token \in issued)
       => res.status = 403

GatewayStreamPrefix == GatewayProtocol \o "://" \o GatewayHost \o StreamPath \o "?"

\* C10: every non-blank, non-directive line of a rewritten manifest is a URL
\* of the gateway's stream endpoint whose token is the token of the manifest
\* request and whose url is the resolved URL of a line of the upstream
\* manifest; a followed line that resolves to a playlist is fetched as a
\* playlist and rewritten the same way
C10_RecursiveRewriting ==
    /\ page.text # Undefined
       => \E inLines \in { Split(page.original, "\n") },
             outLines \in { Split(page.text, "\n") } :
            \A j \in DOMAIN outLines :
              IsUriLine(outLines[j])
              => /\ StartsWith(outLines[j], GatewayStreamPrefix)
                 /\ QueryParam(UrlQuery(outLines[j]), "token") = page.token
                 /\ \E i \in DOMAIN inLines :
                      /\ IsUriLine(inLines[i])
                      /\ QueryParam(UrlQuery(outLines[j]), "url")
                           = absoluteSegmentUrl(inLines[i], page.upstreamUrl)
    /\ (FollowsLine /\ Includes(ResolvedLine, ".m3u8") /\ Handled)
       => /\ pc # "hung"
          /\ fetches = 1
          /\ up.responseType = "text"
          /\ up.url = ResolvedLine
          /\ (pc = "responded" /\ UpstreamAccepted(reply))
             => /\ res.contentType = "application/vnd.apple.mpegurl"
                /\ res.text = modifiedManifest(reply.text, ResolvedLine, TokenOf(req),
                                               GatewayProtocol, req.host)

(***************************************************************************)
(* Properties: the order and the outcome of the checks                     *)
(***************************************************************************)

\* the denials, as the client tells them apart
AgentDenial ==
    /\ res.status = 403
    /\ res.message = "Download Managers are not allowed. Please use the browser player."
RefererDenial ==
    /\ res.status = 403
    /\ res.message = "Invalid Referer. Direct access is not allowed."
MethodDenial == res.status = 405
FetchDestDenial == res.status = 403 /\ res.error = "Invalid Request Mode"
CredentialDenial == res.status = 403 /\ res.error = "Missing token or url"

\* what the checks find wrong with the request being served
AgentFails == ContainsSignature(UserAgentOf(req))
RefererFails == ~Truthy(req.referer)
MethodFails == req.method = "HEAD"
FetchDestFails == Truthy(req.secFetchDest) /\ req.secFetchDest \notin {"video", "audio", "empty", "object"}
CredentialMissing == ~Truthy(TokenOf(req))

\* C11 (as stated): the order is agent, session, referer, method, fetch-dest;
\* a request without a credential that passes the agent check is denied for
\* the missing credential, whatever else it fails
C11_SessionSecond ==
    (pc = "responded" /\ req.path = StreamPath /\ req.method \in {"GET", "HEAD"})
    => /\ AgentFails => AgentDenial
       /\ (~AgentFails /\ CredentialMissing) => CredentialDenial

\* C11 (amended): the checks run in the order agent, referer, method,
\* fetch-dest, then presence of token and url, and the first check that fails
\* alone determines the response
C11_FirstFailingCheck ==
    (pc = "responded" /\ req.path = StreamPath /\ req.method \in {"GET", "HEAD"})
    => /\ AgentFails => AgentDenial
       /\ (~AgentFails /\ RefererFails) => RefererDenial
       /\ (~AgentFails /\ ~RefererFails /\ MethodFails) => MethodDenial
       /\ (~AgentFails /\ ~RefererFails /\ ~MethodFails /\ FetchDestFails) => FetchDestDenial
       /\ (/\ ~AgentFails /\ ~RefererFails /\ ~MethodFails /\ ~FetchDestFails
           /\ (CredentialMissing \/ ~Truthy(UrlOf(req))))
          => CredentialDenial

\* C11 (witness): a GET without token, without Referer and with a
\* Sec-Fetch-Dest of document has been denied for its Referer
C11_Witness ==
    /\ pc = "responded"
    /\ req.method = "GET"
    /\ req.path = StreamPath
    /\ ~AgentFails
    /\ RefererFails
    /\ FetchDestFails
    /\ CredentialMissing
    /\ RefererDenial

\* the allow-list that the middleware names and does not apply:
\* allowedDomains.some(d => referer.includes(d))
allowedDomains == { "localhost", "vercel.app", "your-domain.com" }
RefererAllowed(referer) == \E d \in allowedDomains : Includes(referer, d)

\* C12: a stream request that passes the agent check and whose Referer is
\* absent, or names an origin outside the allow-list, is denied 403 for its
\* Referer
C12_RefererAllowList ==
    (/\ pc = "responded"
     /\ OnStreamPath(req)
     /\ ~AgentFails
     /\ (RefererFails \/ ~RefererAllowed(req.referer)))
    => RefererDenial

UpstreamFailed ==
    \/ reply.kind = "error"
    \/ reply.kind = "http" /\ (reply.status < 200 \/ reply.status > 299)

\* C14: when the upstream fetch of an admitted request fails, for a playlist
\* and for a file alike, the client gets 500 and the request has had one
\* upstream fetch and no second one
C14_UpstreamFailure ==
    /\ fetches <= 1
    /\ (pc = "responded" /\ UpstreamFailed)
       => /\ res.status = 500
          /\ res.text = "Stream Proxy Failed"
          /\ fetches = 1

\* C14 (witness): the origin answered 416 to the fetch of a file and the
\* client has been answered 500
C14_Witness ==
    /\ pc = "responded"
    /\ passed
    /\ up.responseType = "stream"
    /\ reply.kind = "http"
    /\ reply.status = 416
    /\ res.status = 500
    /\ fetches = 1

\* C15: every response to a GET or HEAD of the stream endpoint has a status
\* among 200, 206, 403, 405, 429, 500, and a response of the file proxy that
\* is not the 500 of a failure is 200 or 206
C15_StatusSet ==
    (pc = "responded" /\ StreamRouteMatches(req))
    => /\ res.status \in {200, 206, 403, 405, 429, 500}
       /\ (up.responseType = "stream" /\ res.status # 500) => res.status \in {200, 206}

(***************************************************************************)
(* Properties: the token endpoint                                          *)
(***************************************************************************)

\* C16: a GET of the streamUrl that the token endpoint returned, sent with a
\* browser User-Agent and a Referer, reaches the stream handler with the
\* token of that answer and is not answered 403 or 404
C16_StreamUrlServed ==
    (req.via = "streamUrl" /\ pc \in {"responded", "hung"})
    => /\ TokenOf(req) \in issued
       /\ passed
       /\ StreamRouteMatches(req)
       /\ res.status \notin {403, 404}

\* the instants at which a token can have been issued
IssueInstants == { k * WaitSeconds : k \in 0..(clock \div WaitSeconds) }

\* the token of the request being served was issued more than five minutes
\* (300 seconds) before the request arrived
TokenExpired ==
    /\ Len(arrivals) > 0
    /\ \E t \in IssueInstants :
         /\ TokenOf(req) = GeneratedToken(t)
         /\ arrivals[Len(arrivals)] - t > 300

\* C17: a request whose token was issued longer ago than the validity period
\* is denied with 403 and causes no upstream fetch
C17_TokenExpires ==
    (TokenExpired /\ Handled)
    => /\ fetches = 0
       /\ pc = "responded"
       /\ res.status = 403

(***************************************************************************)
(* Properties: what a player dereferences from a rewritten manifest        *)
(***************************************************************************)

\* the line is a tag with a URI attribute (EXT-X-KEY, EXT-X-MAP, EXT-X-MEDIA)
HasTagUri(line) == StartsWith(line, "#EXT") /\ Includes(line, "URI=\"")

\* the value of the URI attribute of such a tag
TagUri(line) ==
    LET from == IndexOf(line, "URI=\"") + 5
        to   == IndexFrom(line, "\"", from)
    IN  SubSeq(line, from, (IF to = 0 THEN Len(line) + 1 ELSE to) - 1)

\* C18: every URI of a rewritten manifest that a player dereferences, the URI
\* lines and the URI attributes of key tags alike, is a URL of the gateway's
\* stream endpoint
C18_AllUrisThroughGateway ==
    page.text # Undefined
    => \E outLines \in { Split(page.text, "\n") } :
         \A j \in DOMAIN outLines :
           /\ IsUriLine(outLines[j]) => StartsWith(Trim(outLines[j]), GatewayStreamPrefix)
           /\ HasTagUri(outLines[j]) => StartsWith(TagUri(outLines[j]), GatewayStreamPrefix)

(***************************************************************************)
(* Properties: manifest detection and the resolution of lines              *)
(***************************************************************************)

\* s ends with suffix
EndsWith(s, suffix) ==
    Len(s) >= Len(suffix) /\ SubSeq(s, Len(s) - Len(suffix) + 1, Len(s)) = suffix

\* the middleware has admitted the request and the handler has found its
\* token and its url
AdmittedRequest ==
    /\ passed
    /\ StreamRouteMatches(req)
    /\ Truthy(TokenOf(req))
    /\ Truthy(UrlOf(req))
    /\ DecodedUrlOf(req).ok

\* C19: an admitted request is handled by the manifest rewriter exactly when
\* the path of its upstream URL ends with .m3u8, and by the file proxy
\* otherwise
C19_ManifestDetection ==
    (AdmittedRequest /\ Handled)
    => (up.responseType = "text"
        <=> EndsWith(UrlBeforeQuery(DecodedUrlOf(req).val), ".m3u8"))

\* scheme and authority of an absolute URL: what precedes the first '/' after
\* "://"
OriginOf(u) ==
    LET k == IndexFrom(u, "/", IndexOf(u, "://") + 3)
    IN  IF k = 0 THEN u ELSE SubSeq(u, 1, k - 1)

\* the reference of a manifest line resolved against the playlist URL: the
\* reference itself when it is absolute, the origin and the reference when it
\* starts with '/', and otherwise the path of the playlist URL up to its last
\* '/', query string not counted, and the reference
Resolve(ref, playlistUrl) ==
    IF StartsWith(ref, "http://") \/ StartsWith(ref, "https://") THEN ref
    ELSE IF StartsWith(ref, "/") THEN OriginOf(playlistUrl) \o ref
    ELSE LET path == UrlBeforeQuery(playlistUrl)
         IN  SubSeq(path, 1, LastIndexOf(path, "/")) \o ref

\* C20: the url parameter of every rewritten line is the reference of the
\* upstream line, without the white space and the CR around it, resolved
\* against the playlist URL
C20_UriResolution ==
    page.text # Undefined
    => \E inLines \in { Split(page.original, "\n") },
          outLines \in { Split(page.text, "\n") } :
         Len(outLines) = Len(inLines)
         => \A j \in DOMAIN inLines :
              IsUriLine(inLines[j])
              => QueryParam(UrlQuery(outLines[j]), "url")
                   = Resolve(Trim(inLines[j]), page.upstreamUrl)

(***************************************************************************)
(* Properties: the Referer check and the Accept header                     *)
(***************************************************************************)

\* the Accept header of the request names text/html, as that of a top-level
\* navigation does
AcceptsHtml == Truthy(req.accept) /\ Includes(req.accept, "text/html")

\* a request on the stream path without Referer that passed the agent check
\* has been answered
RefererChecked ==
    /\ pc = "responded"
    /\ req.path = StreamPath
    /\ ~AgentFails
    /\ RefererFails

\* C21 (as stated): a request without Referer is let through the Referer
\* check when its Accept header is that of a navigation, and denied by that
\* check otherwise
C21_RefererException ==
    RefererChecked => (RefererDenial <=> ~AcceptsHtml)

\* C21 (amended): every request without Referer that passes the agent check
\* is denied by the Referer check, the Accept header of a navigation or not
C21_NoRefererDenied ==
    RefererChecked => RefererDenial

\* C21 (witness): a navigation without Referer has been denied for its Referer
C21_Witness ==
    /\ RefererChecked
    /\ AcceptsHtml
    /\ req.method = "GET"
    /\ RefererDenial

(***************************************************************************)
(* Properties: the wait for the origin                                     *)
(***************************************************************************)

\* the request being served was admitted and its upstream fetch is under way
FetchUnderWay == fetches = 1 /\ pc \in {"awaitManifest", "awaitMedia", "pending"}

\* C22: every admitted request whose upstream fetch is under way is
\* eventually answered, and answered 5xx when the origin stays silent
C22_BoundedUpstreamWait ==
    /\ FetchUnderWay ~> (pc = "responded")
    /\ (pc = "pending") ~> (pc = "responded" /\ res.status >= 500)

(***************************************************************************)
(* Properties: the client that disconnects                                 *)
(***************************************************************************)

\* the client of the request has disconnected while its body was piped
ClientGone == pc \in {"unpiped", "released"}

\* the connection that the fetch of the request opened to the origin is open
UpstreamOpen == Piping \/ pc = "unpiped"

\* C23: once the client has disconnected while a body was piped, the
\* connection to the origin that the request opened is eventually closed
C23_Cancellation == ClientGone ~> ~UpstreamOpen

(***************************************************************************)
(* Properties: requests are decided independently of one another           *)
(***************************************************************************)

\* C24: the decision on a request is the decision that every earlier request
\* of the same method, headers and query got, whatever was requested, allowed
\* or denied, in between
C24_RequestIndependence ==
    Decided => \A d \in decisions : d[1] = RequestKey(req) => d[2] = Decision

\* C24 (witness): a request has been allowed that was allowed before, and a
\* denial of another request lies between the two
C24_Witness ==
    /\ Decided
    /\ Decision.allowed
    /\ << RequestKey(req), Decision >> \in decisions
    /\ \E d \in decisions : ~d[2].allowed
    /\ pc = "responded"

(***************************************************************************)
(* Properties: which requests are admitted                                 *)
(***************************************************************************)

\* the conditions of admission: no signature of the denylist in the
\* User-Agent, a Referer, a Sec-Fetch-Dest that is absent or valid, a token
\* and a url
MeetsConditions ==
    /\ ~AgentFails
    /\ ~RefererFails
    /\ ~FetchDestFails
    /\ Truthy(TokenOf(req))
    /\ Truthy(UrlOf(req))

\* C25: a GET to the stream endpoint reaches the upstream fetch exactly when
\* it meets the conditions of admission
C25_AdmissionCharacterised ==
    (Handled /\ req.method = "GET" /\ req.path = StreamPath)
    => (fetches > 0 <=> MeetsConditions)

(***************************************************************************)
(* Properties: one response for each request                               *)
(***************************************************************************)

\* the responses of the stream handler: the 403 for a missing token or url, a
\* rewritten manifest, a proxied stream, or the 500 of a failed proxy
HandlerResponse ==
    \/ CredentialDenial
    \/ res.status = 200 /\ Truthy(res.text) /\ res.contentType = "application/vnd.apple.mpegurl"
    \/ Truthy(res.bytesOf)
    \/ res.status = 500

\* C26: for a GET to the stream endpoint the middleware has either denied or
\* passed the request on, never both and never neither, and once the exchange
\* is over the request has one response: the denial of the middleware or,
\* when it was passed on, one response of the handler
C26_ExactlyOneResponse ==
    (req.path = StreamPath /\ req.method = "GET")
    => /\ pc = "routed" => (passed /\ res.status = 0)
       /\ pc \in {"awaitManifest", "awaitMedia"} => (passed /\ res.status = 0)
       /\ (pc = "responded" /\ ~passed)
          => (AgentDenial \/ RefererDenial \/ MethodDenial \/ FetchDestDenial)
       /\ (pc = "responded" /\ passed) => HandlerResponse
       /\ pc # "hung"

(***************************************************************************)
(* Properties: the SecurePlayer                                            *)
(***************************************************************************)

\* the negotiation for the url of the player, a playlist, has succeeded
HlsNegotiated ==
    /\ player.phase = "mounted"
    /\ IsHls(player.url)
    /\ Truthy(player.proxiedUrl)

\* C27: once the negotiation for an HLS url has succeeded, the player
\* eventually shows the media element or an error instead of the loader,
\* unless it is unmounted or given another url before
C27_PlayerProgress ==
    HlsNegotiated ~> (~player.loading \/ Truthy(player.error) \/ ~HlsNegotiated)

\* negotiation n was started by a run of the effect that has been cleaned up:
\* the player has unmounted or its url has changed since
Stale(n) == player.phase # "mounted" \/ n.gen # player.gen

\* C29: a step that delivers the response to a stale negotiation leaves
\* proxiedUrl, error and loading as they are
C29_StaleResponsesIgnored ==
    [][\A n \in player.pending :
         (n \notin player'.pending /\ Stale(n))
         => /\ player'.proxiedUrl = player.proxiedUrl
            /\ player'.error = player.error
            /\ player'.loading = player.loading]_vars

\* C29 (witness): the response to a stale negotiation has been ignored, and
\* the response to the negotiation for the current url has set proxiedUrl
C29_Witness ==
    /\ player.phase = "mounted"
    /\ player.ignored > 0
    /\ player.proxiedUrl = SecureUrl(player.url)
    /\ player.pending = {}

\* C28: the idle state of a mounted player is cleared by a user activity
\* event and by nothing else
C28_IdleUntilActivity ==
    [][(/\ player.phase = "mounted"
        /\ player'.phase = "mounted"
        /\ player.idle.isIdle
        /\ ~player'.idle.isIdle)
       => player'.idle.by = "activity"]_vars
====
